---- MODULE Spec2Model ----
(***************************************************************************)
(* github-proxy (cmd/github-proxy/github-proxy.go): the request handler,   *)
(* the lazily filled table of rate-limit monitors, the hot-reloaded        *)
(* authenticator, the global request mutex and the rate-limit gauge.       *)
(***************************************************************************)
EXTENDS Integers, Sequences, FiniteSets, TLC

(* ------------------------------ bounds -------------------------------- *)
\* concurrent inbound requests (goroutines running the handler)
MaxReqs == 2
\* the clock runs from 0 to MaxNow
MaxNow == 2
\* configuration changes after start-up
MaxConfChanges == 1
\* key=value pairs of an inbound query string (QuerySpec)
MaxPairs == 2
\* concurrent inbound requests of GateSpec, at least MaxReqs
MaxGateReqs == 3
\* clicks on the action buttons of one UserEmail component
MaxClicks == 2
\* segments of an inbound path (PathSpec)
MaxSegs == 2

Reqs == 1..MaxReqs
\* every request there is: those of GateSpec
AllReqs == 1..MaxGateReqs

(* ------------------------- query strings ------------------------------ *)
\* A raw query string is a sequence of pairs [k, v] of raw (escaped) tokens,
\* "k1=v1&k2=v2"; url.Values is a function from keys to the sequence of the
\* decoded values of that key (<<>> for a key that is absent).
Keys == {"a", "client_id", "client_secret"}
\* sort.Strings order of the keys, as Values.Encode iterates them
KeyOrder == <<"a", "client_id", "client_secret">>
RawVals == {"1", "%31", "%20", "%zz"}
RawPairs == [k : Keys, v : RawVals]

\* url.QueryUnescape: "%31" is "1", "%20" and "+" are a space, "%zz" is an
\* error
ValidEscape(tok) == tok # "%zz"
QueryUnescape(tok) ==
  CASE tok = "%31" -> "1"
    [] tok = "%20" -> " "
    [] tok = "+" -> " "
    [] OTHER -> tok
\* url.QueryEscape: a space is written "+", unreserved text is kept
QueryEscape(val) == IF val = " " THEN "+" ELSE val

EmptyValues == [k \in Keys |-> <<>>]

\* r.URL.Query(): url.ParseQuery with its error dropped; a pair whose key or
\* value does not unescape is skipped, the others are appended in order
RECURSIVE ParseInto(_, _)
ParseInto(raw, vals) ==
  IF raw = <<>> THEN vals
  ELSE LET p == Head(raw) IN
       IF ValidEscape(p.k) /\ ValidEscape(p.v)
       THEN ParseInto(Tail(raw),
              [vals EXCEPT ![QueryUnescape(p.k)] = Append(@, QueryUnescape(p.v))])
       ELSE ParseInto(Tail(raw), vals)
ParseQuery(raw) == ParseInto(raw, EmptyValues)

\* url.Values.Add in the place of Set: the value is appended
ValuesAdd(vals, key, val) == [vals EXCEPT ![key] = Append(@, val)]

\* url.Values.Set: the key's values are replaced by the single value
ValuesSet(vals, key, val) == [vals EXCEPT ![key] = <<val>>]

\* only the first value of a key is written (Values.Get)
EncodeFirst(key, vs) ==
  IF vs = <<>> THEN <<>>
  ELSE <<[k |-> QueryEscape(key), v |-> QueryEscape(Head(vs))]>>

RECURSIVE EncodeKey(_, _)
EncodeKey(key, vs) ==
  IF vs = <<>> THEN <<>>
  ELSE <<[k |-> QueryEscape(key), v |-> QueryEscape(Head(vs))]>>
       \o EncodeKey(key, Tail(vs))
RECURSIVE EncodeFrom(_, _)
EncodeFrom(vals, i) ==
  IF i > Len(KeyOrder) THEN <<>>
  ELSE EncodeKey(KeyOrder[i], vals[KeyOrder[i]]) \o EncodeFrom(vals, i + 1)
\* url.Values.Encode: keys in sorted order, each with its values in order
Encode(vals) == EncodeFrom(vals, 1)

\* every raw query string of at most n pairs
RECURSIVE QueriesUpTo(_)
QueriesUpTo(n) ==
  IF n = 0 THEN {<<>>}
  ELSE LET S == QueriesUpTo(n - 1) IN
       S \cup {Append(q, p) : q \in {s \in S : Len(s) = n - 1}, p \in RawPairs}
AllQueries == QueriesUpTo(MaxPairs)
\* the inbound queries of the concurrent specification
SampleQueries ==
  { <<>>,
    <<[k |-> "client_id", v |-> "1"], [k |-> "a", v |-> "%31"]>> }

(* --------------------------- configuration ---------------------------- *)
ClientIDs == {"", "i1", "i2"}
ClientSecrets == {"", "s1", "s2"}
Configs == [GithubClientID : ClientIDs, GithubClientSecret : ClientSecrets]
\* the nil func value of authenticateRequest
NilAuth == [set |-> FALSE, clientID |-> "", clientSecret |-> ""]
Authenticators ==
  { [set |-> TRUE, clientID |-> i, clientSecret |-> s] :
      i \in ClientIDs \ {""}, s \in ClientSecrets \ {""} }

(* ------------------------------ paths --------------------------------- *)
\* A path is the sequence of its segments: "/search/x" is <<"search","x">>,
\* "/graphql/" is <<"graphql","">>, "/" is <<"">>.
Classes == {"core", "search", "graphql"}
SamplePaths == { <<"repos", "x">>, <<"search", "x">>, <<"graphql">> }
\* every path of at most MaxSegs segments
Segments == {"", "search", "graphql", "repos", "x"}
RECURSIVE PathsUpTo(_)
PathsUpTo(n) ==
  IF n = 0 THEN {<<>>}
  ELSE LET S == PathsUpTo(n - 1) IN
       S \cup {Append(q, g) : q \in {t \in S : Len(t) = n - 1}, g \in Segments}
AllPaths == PathsUpTo(MaxSegs) \ {<<>>}
\* the prefix test without the closing slash: "/search" itself passes
HasSearchSegment(p) == Len(p) >= 1 /\ p[1] = "search"
\* strings.HasPrefix(r.URL.Path, "/search/")
HasSearchPrefix(p) == Len(p) >= 2 /\ p[1] = "search"
Classify(p) ==
  IF HasSearchPrefix(p) THEN "search"
  ELSE IF p = <<"graphql">> THEN "graphql"
  ELSE "core"

(* ------------------------- upstream responses ------------------------- *)
\* http.Header.Get gives "" for a header that is absent
HeaderNames ==
  {"X-Ratelimit-Remaining", "X-Ratelimit-Reset",
   "Ratelimit-Remaining", "Ratelimit-Reset",
   "Content-Type", "X-Content-Type-Options"}
NoHeader == [h \in HeaderNames |-> ""]
RateHeader(rem, reset) ==
  [NoHeader EXCEPT !["X-Ratelimit-Remaining"] = rem, !["X-Ratelimit-Reset"] = reset]
\* the same two headers under their canonical names
CanonicalHeader(rem, reset) ==
  [NoHeader EXCEPT !["Ratelimit-Remaining"] = rem, !["Ratelimit-Reset"] = reset]
\* what http.DefaultClient.Do can return: a response, or a transport error
NoResp == [err |-> FALSE, status |-> 0, header |-> NoHeader, body |-> ""]
TransportError == [err |-> TRUE, status |-> 0, header |-> NoHeader, body |-> "dial"]
Responses ==
  { [err |-> FALSE, status |-> 200,
     header |-> [RateHeader("5", "2") EXCEPT !["Content-Type"] = "json"],
     body |-> "ok"],
    [err |-> FALSE, status |-> 403, header |-> RateHeader("0", "2"), body |-> "boom"],
    [err |-> FALSE, status |-> 200, header |-> CanonicalHeader("5", "2"), body |-> "ok"],
    [err |-> FALSE, status |-> 200, header |-> NoHeader, body |-> "ok"] }
DoResults == Responses \cup {TransportError}

\* strconv.Atoi on the header texts of the model: the number, or an error
Atoi(s) ==
  CASE s = "0" -> [n |-> 0, ok |-> TRUE]
    [] s = "2" -> [n |-> 2, ok |-> TRUE]
    [] s = "5" -> [n |-> 5, ok |-> TRUE]
    [] OTHER -> [n |-> 0, ok |-> FALSE]

(* --------------------------- ratelimit.Monitor ------------------------ *)
\* a Monitor before any Update
NewMonitor == [known |-> FALSE, remaining |-> 0, reset |-> 0]
\* the header a Monitor reads: the prefixed name, else the canonical name
MonitorHeader(h, name) ==
  IF h["X-" \o name] # "" THEN h["X-" \o name] ELSE h[name]
\* Monitor.Update: the remaining and reset headers overwrite the state; the
\* state is unknown when one of them does not parse
MonitorUpdate(m, h) ==
  LET rem == Atoi(MonitorHeader(h, "Ratelimit-Remaining"))
      rst == Atoi(MonitorHeader(h, "Ratelimit-Reset"))
  IN IF rem.ok /\ rst.ok
     THEN [known |-> TRUE, remaining |-> rem.n, reset |-> rst.n]
     ELSE NewMonitor
\* Monitor.Get: (remaining, time until reset, known)
MonitorGet(m, t) ==
  IF m.known
  THEN [remaining |-> m.remaining, reset |-> m.reset - t, known |-> TRUE]
  ELSE [remaining |-> 0, reset |-> 0, known |-> FALSE]

(* ------------------------------- state -------------------------------- *)
VARIABLES
  now,                 \* the clock (time.Now)
  crashed,             \* the runtime has ended the process (fatal error)
  cfg,                 \* conf.Get(): the current configuration
  dirty,               \* a configuration change the watcher has not handled
  confChanges,         \* configuration changes so far
  cfgSeen,             \* history: every configuration snapshot there was
  wpc,                 \* position of the conf.Watch callback
  wcfg,                \* the callback's clientID, clientSecret
  authenticateRequest, \* the published authenticator, or NilAuth
  monitors,            \* class -> index in heap of its Monitor, 0 for nil
  heap,                \* the Monitors allocated so far
  gauge,               \* rateLimitRemainingGauge, per class
  lastResp,            \* history: per class, the response returned last
  logRequests,         \* the LOG_REQUESTS setting of the process
  logs,                \* what was logged (log.Print, log15.Warn)
  wrote,               \* per request: the writes to its ResponseWriter
  requestMu,           \* holder of requestMu, 0 when free
  pc,                  \* per request: position in the handler
  path, rawQuery,      \* per request: r.URL.Path, r.URL.RawQuery
  q2,                  \* per request: the url.Values q2
  resource,            \* per request: the resource class
  rateLimit,           \* per request: index of its *Monitor, 0 for nil
  authRequest,         \* per request: the authenticator it read
  req2,                \* per request: RawQuery of the outbound request
  sent,                \* per request: RawQuery of the call made upstream
  resp,                \* per request: what Do returned
  status,              \* per request: status written to the caller, 0 for none
  did,                 \* per request: history of the steps it has taken
  calls,               \* per request: the calls of http.DefaultClient.Do
  props,               \* UserEmail: the email's flags, the callbacks given
  statusOrError,       \* UserEmail: the state of useState<Status>
  outstanding,         \* UserEmail: per mutation, the requests not settled
  clicks,              \* UserEmail: clicks on an action button so far
  invoked,             \* UserEmail history: callbacks and events, in order
  outcomes             \* UserEmail history: the settled mutations, in order

confVars == <<cfg, dirty, confChanges, cfgSeen, wpc, wcfg, authenticateRequest>>
tableVars == <<monitors, heap, gauge>>
reqVars == <<pc, path, rawQuery, q2, resource, rateLimit, authRequest, req2,
             sent, resp, status, did, calls>>
outVars == <<logs, wrote>>
proxyVars == <<now, crashed, confVars, tableVars, lastResp, logRequests,
               outVars, requestMu, reqVars>>
uiVars == <<props, statusOrError, outstanding, clicks, invoked, outcomes>>
vars == <<proxyVars, uiVars>>

NoQuery == <<>>

\* func init(): the gauge is seeded for core and search
InitGauge ==
  [c \in Classes |-> CASE c = "core" -> 5000 [] c = "search" -> 30 [] OTHER -> 0]

ReqInit ==
  /\ pc = [r \in AllReqs |-> "idle"]
  /\ path = [r \in AllReqs |-> <<>>]
  /\ rawQuery = [r \in AllReqs |-> NoQuery]
  /\ q2 = [r \in AllReqs |-> EmptyValues]
  /\ resource = [r \in AllReqs |-> "core"]
  /\ rateLimit = [r \in AllReqs |-> 0]
  /\ authRequest = [r \in AllReqs |-> NilAuth]
  /\ req2 = [r \in AllReqs |-> NoQuery]
  /\ sent = [r \in AllReqs |-> NoQuery]
  /\ resp = [r \in AllReqs |-> NoResp]
  /\ status = [r \in AllReqs |-> 0]
  /\ did = [r \in AllReqs |-> {}]
  /\ calls = [r \in AllReqs |-> 0]

(* ------------------------- the conf.Watch callback -------------------- *)
\* the configuration is edited (the site admin saves a new one)
ConfChange(c) ==
  /\ ~crashed
  /\ confChanges < MaxConfChanges
  /\ c # cfg
  /\ cfg' = c
  /\ dirty' = TRUE
  /\ confChanges' = confChanges + 1
  /\ cfgSeen' = cfgSeen \cup {c}
  /\ UNCHANGED <<now, crashed, wpc, wcfg, authenticateRequest, tableVars,
                 lastResp, logRequests, outVars, requestMu, reqVars, uiVars>>

\* the test with || in the place of &&
EitherCredential(c) == c.GithubClientID # "" \/ c.GithubClientSecret # ""

\* the test of the callback: both fields are set
ValidCredentials(c) == c.GithubClientID # "" /\ c.GithubClientSecret # ""

\* a publication that replaces the identifier and keeps a secret already
\* published (the two fields stored one at a time)
TornAuthenticator(clientID, clientSecret) ==
  [set |-> TRUE, clientID |-> clientID,
   clientSecret |-> IF authenticateRequest.set
                    THEN authenticateRequest.clientSecret ELSE clientSecret]

\* the closure the callback builds from clientID and clientSecret
NewAuthenticator(clientID, clientSecret) ==
  [set |-> TRUE, clientID |-> clientID, clientSecret |-> clientSecret]

\* cfg := conf.Get() and the test; the callback returns when it fails
WatchGet ==
  /\ ~crashed
  /\ dirty
  /\ wpc = "idle"
  /\ dirty' = FALSE
  /\ wcfg' = cfg
  /\ wpc' = IF ValidCredentials(cfg) THEN "publish" ELSE "idle"
  /\ UNCHANGED <<now, crashed, cfg, confChanges, cfgSeen, authenticateRequest,
                 tableVars, lastResp, logRequests, outVars, requestMu,
                 reqVars, uiVars>>

\* the assignment to authenticateRequest under authenticateRequestMu
WatchPublish ==
  /\ ~crashed
  /\ wpc = "publish"
  /\ authenticateRequest' =
       NewAuthenticator(wcfg.GithubClientID, wcfg.GithubClientSecret)
  /\ wpc' = "idle"
  /\ UNCHANGED <<now, crashed, cfg, dirty, confChanges, cfgSeen, wcfg,
                 tableVars, lastResp, logRequests, outVars, requestMu,
                 reqVars, uiVars>>

(* ------------------------------ the handler --------------------------- *)
\* a request arrives: q2 := r.URL.Query(), the classification, and
\* if monitors[resource] == nil
Arrive(r, p, raw) ==
  /\ ~crashed
  /\ pc[r] = "idle"
  /\ path' = [path EXCEPT ![r] = p]
  /\ rawQuery' = [rawQuery EXCEPT ![r] = raw]
  /\ q2' = [q2 EXCEPT ![r] = ParseQuery(raw)]
  /\ resource' = [resource EXCEPT ![r] = Classify(p)]
  /\ pc' = [pc EXCEPT ![r] = IF monitors[Classify(p)] = 0 THEN "create" ELSE "getmon"]
  /\ UNCHANGED <<now, crashed, confVars, tableVars, lastResp, logRequests,
                 outVars, requestMu, rateLimit, authRequest, req2, sent, resp,
                 status, did, calls, uiVars>>

\* monitors[resource] = &ratelimit.Monitor{HeaderPrefix: "X-"}
CreateMonitor(r) ==
  /\ ~crashed
  /\ pc[r] = "create"
  /\ heap' = Append(heap, NewMonitor)
  /\ monitors' = [monitors EXCEPT ![resource[r]] = Len(heap) + 1]
  /\ pc' = [pc EXCEPT ![r] = "getmon"]
  /\ UNCHANGED <<now, crashed, confVars, lastResp, logRequests, outVars,
                 gauge, requestMu, path, rawQuery, q2, resource, rateLimit,
                 authRequest, req2, sent, resp, status, did, calls, uiVars>>

\* The map is written with no lock: when the write of one handler overlaps
\* a map access of another, the Go runtime may end the process ("fatal
\* error: concurrent map writes").
MapFault(r) ==
  /\ ~crashed
  /\ pc[r] = "create"
  /\ \E o \in AllReqs \ {r} : pc[o] \in {"create", "getmon"}
  /\ crashed' = TRUE
  /\ UNCHANGED <<now, confVars, tableVars, lastResp, logRequests, outVars,
                 requestMu, reqVars, uiVars>>

\* rateLimit := monitors[resource]
GetMonitor(r) ==
  /\ ~crashed
  /\ pc[r] = "getmon"
  /\ rateLimit' = [rateLimit EXCEPT ![r] = monitors[resource[r]]]
  /\ pc' = [pc EXCEPT ![r] = "check"]
  /\ UNCHANGED <<now, crashed, confVars, tableVars, lastResp, logRequests,
                 outVars, requestMu, path, rawQuery, q2, resource,
                 authRequest, req2, sent, resp, status, did, calls, uiVars>>

\* the admission test without its reset clause
RateLimitedNoReset(g) == g.known /\ g.remaining < 1

\* rateLimitKnown && (rateLimitRemaining < 1 && rateLimitReset > 0)
RateLimited(g) == g.known /\ (g.remaining < 1 /\ g.reset > 0)

\* the writes of http.Error(w, text, code): its two headers, the status and
\* the text with a newline
ErrorWrites(text, code) ==
  << [op |-> "header", status |-> 0, body |-> "",
      header |-> [NoHeader EXCEPT !["Content-Type"] = "text/plain",
                                  !["X-Content-Type-Options"] = "nosniff"]],
     [op |-> "status", status |-> code, body |-> "", header |-> NoHeader],
     [op |-> "body", status |-> 0, body |-> text \o "\n", header |-> NoHeader] >>

\* fmt.Sprintf("rate limit for %q exceeded, reset at %s", resource,
\* time.Now().Add(rateLimitReset))
LimitMessage(c, t) ==
  "rate limit for \"" \o c \o "\" exceeded, reset at " \o ToString(t)

\* rateLimit.Get() and the admission test: 403, or on to the outbound request
CheckLimit(r) ==
  /\ ~crashed
  /\ pc[r] = "check"
  /\ LET g == MonitorGet(heap[rateLimit[r]], now) IN
     IF RateLimited(g)
     THEN /\ status' = [status EXCEPT ![r] = 403]
          /\ wrote' = [wrote EXCEPT ![r] =
                         ErrorWrites(LimitMessage(resource[r], now + g.reset), 403)]
          /\ did' = [did EXCEPT ![r] = @ \cup {"reject"}]
          /\ pc' = [pc EXCEPT ![r] = "done"]
     ELSE /\ pc' = [pc EXCEPT ![r] = "auth"]
          /\ UNCHANGED <<status, wrote, did>>
  /\ UNCHANGED <<now, crashed, confVars, tableVars, lastResp, logRequests,
                 logs, requestMu, path, rawQuery, q2, resource, rateLimit,
                 authRequest, req2, sent, resp, calls, uiVars>>

\* authRequest(q2, h2): query.Set of client_id and client_secret
ApplyAuth(a, vals) ==
  IF a.set
  THEN ValuesSet(ValuesSet(vals, "client_id", a.clientID),
                 "client_secret", a.clientSecret)
  ELSE vals

\* the authenticator is read under RLock and applied; req2 is built with
\* RawQuery: q2.Encode()
Authenticate(r) ==
  /\ ~crashed
  /\ pc[r] = "auth"
  /\ authRequest' = [authRequest EXCEPT ![r] = authenticateRequest]
  /\ q2' = [q2 EXCEPT ![r] = ApplyAuth(authenticateRequest, q2[r])]
  /\ req2' = [req2 EXCEPT ![r] = Encode(ApplyAuth(authenticateRequest, q2[r]))]
  /\ pc' = [pc EXCEPT ![r] = "lock"]
  /\ UNCHANGED <<now, crashed, confVars, tableVars, lastResp, logRequests,
                 outVars, requestMu, path, rawQuery, resource, rateLimit,
                 sent, resp, status, did, calls, uiVars>>

\* a Lock that does not wait
MuNeverWaits == TRUE

\* requestMu.Lock() returns only when the mutex is free
MuFree == requestMu = 0

\* the authenticator read again when the call is made
CallQueryLate(r) == Encode(ApplyAuth(authenticateRequest, q2[r]))

\* the query of the request handed to http.DefaultClient.Do
CallQuery(r) == req2[r]

\* requestMu.Lock() and the start of http.DefaultClient.Do(req2)
Lock(r) ==
  /\ ~crashed
  /\ pc[r] = "lock"
  /\ MuFree
  /\ requestMu' = r
  /\ sent' = [sent EXCEPT ![r] = CallQuery(r)]
  /\ did' = [did EXCEPT ![r] = @ \cup {"gate", "call"}]
  /\ calls' = [calls EXCEPT ![r] = @ + 1]
  /\ pc' = [pc EXCEPT ![r] = "inflight"]
  /\ UNCHANGED <<now, crashed, confVars, tableVars, lastResp, logRequests,
                 outVars, path, rawQuery, q2, resource, rateLimit,
                 authRequest, req2, resp, status, uiVars>>

\* the upstream call returns resp or err
DoReturns(r, res) ==
  /\ ~crashed
  /\ pc[r] = "inflight"
  /\ resp' = [resp EXCEPT ![r] = res]
  /\ lastResp' = IF res.err THEN lastResp
                 ELSE [lastResp EXCEPT ![resource[r]] = res]
  /\ pc' = [pc EXCEPT ![r] = "unlock"]
  /\ UNCHANGED <<now, crashed, confVars, logRequests, outVars, tableVars,
                 requestMu, path, rawQuery, q2, resource, rateLimit,
                 authRequest, req2, sent, status, did, calls, uiVars>>

\* an Unlock that is skipped when Do returned an error
MuKeptOnError(r) == IF resp[r].err THEN requestMu ELSE 0

\* the holder of requestMu after requestMu.Unlock()
MuAfterUnlock(r) == 0

\* an error of Do that is not tested
ErrorIgnored(res) == "update"

\* a failed call that is made again
RetryOnError(res) == IF res.err THEN "lock" ELSE "update"

\* if err != nil: the error path, else the bookkeeping
AfterDo(res) == IF res.err THEN "fail" ELSE "update"

\* requestMu.Unlock(), then if err != nil
Unlock(r) ==
  /\ ~crashed
  /\ pc[r] = "unlock"
  /\ requestMu' = MuAfterUnlock(r)
  /\ pc' = [pc EXCEPT ![r] = AfterDo(resp[r])]
  /\ UNCHANGED <<now, crashed, confVars, tableVars, lastResp, logRequests,
                 outVars, path, rawQuery, q2, resource, rateLimit,
                 authRequest, req2, sent, resp, status, did, calls, uiVars>>

\* log.Print(err); http.Error(w, err.Error(), 500); return
Fail(r) ==
  /\ ~crashed
  /\ pc[r] = "fail"
  /\ logs' = logs \cup {[req |-> r, kind |-> "print", status |-> 0,
                         text |-> resp[r].body]}
  /\ status' = [status EXCEPT ![r] = 500]
  /\ wrote' = [wrote EXCEPT ![r] = ErrorWrites(resp[r].body, 500)]
  /\ pc' = [pc EXCEPT ![r] = "done"]
  /\ UNCHANGED <<now, crashed, confVars, tableVars, lastResp, logRequests,
                 requestMu, path, rawQuery, q2, resource, rateLimit,
                 authRequest, req2, sent, resp, did, calls, uiVars>>

\* rateLimit.Update(resp.Header)
Update(r) ==
  /\ ~crashed
  /\ pc[r] = "update"
  /\ heap' = [heap EXCEPT ![rateLimit[r]] = MonitorUpdate(@, resp[r].header)]
  /\ did' = [did EXCEPT ![r] = @ \cup {"update"}]
  /\ pc' = [pc EXCEPT ![r] = "gauge"]
  /\ UNCHANGED <<now, crashed, confVars, lastResp, logRequests, outVars,
                 monitors, gauge, requestMu, path, rawQuery, q2, resource,
                 rateLimit, authRequest, req2, sent, resp, status, calls,
                 uiVars>>

\* if limit := resp.Header.Get("X-Ratelimit-Remaining"); limit != "" { Set }
SetGauge(r) ==
  /\ ~crashed
  /\ pc[r] = "gauge"
  /\ LET limit == resp[r].header["X-Ratelimit-Remaining"] IN
     IF limit # ""
     THEN /\ gauge' = [gauge EXCEPT ![resource[r]] = Atoi(limit).n]
          /\ did' = [did EXCEPT ![r] = @ \cup {"gauge"}]
     ELSE UNCHANGED <<gauge, did>>
  /\ pc' = [pc EXCEPT ![r] = "relay"]
  /\ UNCHANGED <<now, crashed, confVars, lastResp, logRequests, outVars,
                 monitors, heap, requestMu, path, rawQuery, q2, resource,
                 rateLimit, authRequest, req2, sent, resp, status, calls,
                 uiVars>>

\* for k, v := range resp.Header { w.Header()[k] = v }
CopyHeader(h) == [k \in HeaderNames |-> IF h[k] # "" THEN h[k] ELSE NoHeader[k]]

\* the status written before the headers are copied
StatusFirst(res, bytes) ==
  << [op |-> "status", status |-> res.status, body |-> "", header |-> NoHeader],
     [op |-> "header", status |-> 0, body |-> "", header |-> CopyHeader(res.header)],
     [op |-> "body", status |-> 0, body |-> bytes, header |-> NoHeader] >>

\* the header copy, w.WriteHeader(resp.StatusCode), io.Copy(w, ...)
RelayWrites(res, bytes) ==
  << [op |-> "header", status |-> 0, body |-> "", header |-> CopyHeader(res.header)],
     [op |-> "status", status |-> res.status, body |-> "", header |-> NoHeader],
     [op |-> "body", status |-> 0, body |-> bytes, header |-> NoHeader] >>

\* the body read again after ReadAll has drained it
DrainedBody(b) == ""

\* bytes.NewReader(b): the bytes ioutil.ReadAll returned
BufferedBody(b) == b

\* if resp.StatusCode < 400 || !logRequests: the body is streamed
Streamed(res) == res.status < 400 \/ ~logRequests

\* the headers, the status and the body are written to the caller; the body
\* is streamed, or read whole, logged and written from the buffer
Relay(r) ==
  /\ ~crashed
  /\ pc[r] = "relay"
  /\ status' = [status EXCEPT ![r] = resp[r].status]
  /\ IF Streamed(resp[r])
     THEN /\ wrote' = [wrote EXCEPT ![r] = RelayWrites(resp[r], resp[r].body)]
          /\ UNCHANGED logs
     ELSE /\ logs' = logs \cup {[req |-> r, kind |-> "warn",
                                 status |-> resp[r].status,
                                 text |-> resp[r].body]}
          /\ wrote' = [wrote EXCEPT ![r] =
                         RelayWrites(resp[r], BufferedBody(resp[r].body))]
  /\ pc' = [pc EXCEPT ![r] = "done"]
  /\ UNCHANGED <<now, crashed, confVars, tableVars, lastResp, logRequests,
                 requestMu, path, rawQuery, q2, resource, rateLimit,
                 authRequest, req2, sent, resp, did, calls, uiVars>>

\* time passes
Tick ==
  /\ ~crashed
  /\ now < MaxNow
  /\ now' = now + 1
  /\ UNCHANGED <<crashed, confVars, tableVars, lastResp, logRequests, outVars,
                 requestMu, reqVars, uiVars>>

\* the steps of the handler from the monitor table to the admission test
Admission(r) ==
  \/ CreateMonitor(r) \/ MapFault(r) \/ GetMonitor(r) \/ CheckLimit(r)

\* the steps from the outbound request to the return of the upstream call
Forward(r, results) ==
  \/ Authenticate(r) \/ Lock(r)
  \/ \E res \in results : DoReturns(r, res)
  \/ Unlock(r)

\* the steps after a response was received
Respond(r) == Update(r) \/ SetGauge(r) \/ Relay(r)

(* ------------- UserEmail (user/settings/emails/UserEmail.tsx) ---------- *)
\* the three mutations of the component
Mutations == {"remove", "verify", "resend"}
\* what a rejected or error-carrying GraphQL request throws
Errors == {"network error", "not allowed"}

\* type Status = undefined | 'loading' | ErrorLike
StatusUndefined == [kind |-> "undefined", message |-> ""]
StatusLoading == [kind |-> "loading", message |-> ""]
\* asError(error)
StatusError(e) == [kind |-> "error", message |-> e]

\* the email's flags and which of the optional callbacks are given
Props ==
  [isPrimary : BOOLEAN, verified : BOOLEAN, verificationPending : BOOLEAN,
   viewerCanManuallyVerify : BOOLEAN, onError : BOOLEAN, onDidRemove : BOOLEAN,
   onEmailVerify : BOOLEAN, onEmailResendVerification : BOOLEAN]

\* no component is mounted
NotMounted ==
  /\ props = [isPrimary |-> FALSE, verified |-> FALSE,
              verificationPending |-> FALSE, viewerCanManuallyVerify |-> FALSE,
              onError |-> FALSE, onDidRemove |-> FALSE, onEmailVerify |-> FALSE,
              onEmailResendVerification |-> FALSE]
  /\ statusOrError = StatusUndefined
  /\ outstanding = [m \in Mutations |-> 0]
  /\ clicks = 0
  /\ invoked = <<>>
  /\ outcomes = <<>>

\* the button of a mutation is rendered
Shown(m) ==
  CASE m = "resend" -> ~props.verified /\ props.verificationPending
    [] m = "verify" -> props.viewerCanManuallyVerify
    [] m = "remove" -> ~props.isPrimary

\* buttons that are never disabled
NeverDisabled == FALSE

\* disabled={statusOrError === 'loading'}
Disabled == statusOrError = StatusLoading

\* eventLogger.log of a mutation that succeeded
EventOf(m) ==
  CASE m = "remove" -> "UserEmailAddressDeleted"
    [] m = "verify" -> IF ~props.verified THEN "UserEmailAddressMarkedVerified"
                       ELSE "UserEmailAddressMarkedUnverified"
    [] m = "resend" -> "UserEmailAddressVerificationResent"

\* the optional callback of a mutation that succeeded
CallbackOf(m) ==
  CASE m = "remove" -> "onDidRemove"
    [] m = "verify" -> "onEmailVerify"
    [] m = "resend" -> "onEmailResendVerification"

\* a click on an enabled button: setStatusOrError('loading') and the request
Click(m) ==
  /\ clicks < MaxClicks
  /\ Shown(m)
  /\ ~Disabled
  /\ clicks' = clicks + 1
  /\ statusOrError' = StatusLoading
  /\ outstanding' = [outstanding EXCEPT ![m] = @ + 1]
  /\ UNCHANGED <<proxyVars, props, invoked, outcomes>>

\* the request resolves without errors: setStatusOrError(undefined), the
\* event, the callback when it is given
Resolve(m) ==
  /\ outstanding[m] > 0
  /\ outstanding' = [outstanding EXCEPT ![m] = @ - 1]
  /\ statusOrError' = StatusUndefined
  /\ invoked' = invoked \o <<[fn |-> "eventLogger.log", arg |-> EventOf(m)]>>
                  \o IF props[CallbackOf(m)]
                     THEN <<[fn |-> CallbackOf(m), arg |-> ""]>> ELSE <<>>
  /\ outcomes' = Append(outcomes, [mutation |-> m, ok |-> TRUE, error |-> ""])
  /\ UNCHANGED <<proxyVars, props, clicks>>

\* handleError: the state after an error
AfterError(e) == IF props.onError THEN StatusUndefined ELSE StatusError(e)

\* the request rejects or carries errors: handleError(error)
Reject(m, e) ==
  /\ outstanding[m] > 0
  /\ outstanding' = [outstanding EXCEPT ![m] = @ - 1]
  /\ statusOrError' = AfterError(e)
  /\ invoked' = IF props.onError
                THEN Append(invoked, [fn |-> "onError", arg |-> e]) ELSE invoked
  /\ outcomes' = Append(outcomes, [mutation |-> m, ok |-> FALSE, error |-> e])
  /\ UNCHANGED <<proxyVars, props, clicks>>

(* ----------------- the proxy under a fixed configuration --------------- *)
\* no credentials are configured and the first call of the callback is over
FixedConf ==
  /\ cfg = [GithubClientID |-> "", GithubClientSecret |-> ""]
  /\ dirty = FALSE
  /\ confChanges = 0
  /\ cfgSeen = {cfg}
  /\ wpc = "idle"
  /\ wcfg = cfg
  /\ authenticateRequest = NilAuth

ProxyStartUp ==
  /\ now = 0
  /\ crashed = FALSE
  /\ monitors = [c \in Classes |-> 0]
  /\ heap = <<>>
  /\ gauge = InitGauge
  /\ lastResp = [c \in Classes |-> NoResp]
  /\ logs = {}
  /\ wrote = [r \in AllReqs |-> <<>>]
  /\ requestMu = 0
  /\ ReqInit

\* the proxy alone: no UserEmail component is mounted
StartUp == ProxyStartUp /\ NotMounted

Init == StartUp /\ FixedConf /\ logRequests \in BOOLEAN

Next ==
  \/ Tick
  \/ \E r \in Reqs :
       \/ \E p \in SamplePaths : Arrive(r, p, NoQuery)
       \/ Admission(r)
       \/ Forward(r, DoResults)
       \/ Fail(r)
       \/ Respond(r)

Spec == Init /\ [][Next]_vars

(* ----------------- the proxy while the configuration changes ----------- *)
PlainResponse ==
  [err |-> FALSE, status |-> 200, header |-> NoHeader, body |-> "ok"]

ReloadInit ==
  /\ StartUp
  /\ logRequests = FALSE
  /\ cfg \in Configs
  /\ dirty = TRUE
  /\ confChanges = 0
  /\ cfgSeen = {cfg}
  /\ wpc = "idle"
  /\ wcfg = [GithubClientID |-> "", GithubClientSecret |-> ""]
  /\ authenticateRequest = NilAuth

ReloadNext ==
  \/ \E c \in Configs : ConfChange(c)
  \/ WatchGet
  \/ WatchPublish
  \/ \E r \in Reqs :
       \/ \E raw \in SampleQueries : Arrive(r, <<"repos", "x">>, raw)
       \/ Admission(r)
       \/ Forward(r, {PlainResponse, TransportError})
       \/ Fail(r)
       \/ Respond(r)

ReloadSpec == ReloadInit /\ [][ReloadNext]_vars

(* ----------------- one request, every inbound query -------------------- *)
\* the callback has published the configured credentials, if any
QueryInit ==
  /\ StartUp
  /\ logRequests = FALSE
  /\ authenticateRequest \in Authenticators \cup {NilAuth}
  /\ cfg = [GithubClientID |-> authenticateRequest.clientID,
            GithubClientSecret |-> authenticateRequest.clientSecret]
  /\ dirty = FALSE
  /\ confChanges = 0
  /\ cfgSeen = {cfg}
  /\ wpc = "idle"
  /\ wcfg = cfg

QueryNext ==
  \/ \E raw \in AllQueries : Arrive(1, <<"repos", "x">>, raw)
  \/ CreateMonitor(1) \/ GetMonitor(1) \/ CheckLimit(1)
  \/ Forward(1, {PlainResponse})
  \/ Respond(1)

QuerySpec == QueryInit /\ [][QueryNext]_vars

(* ----------------- one request, every inbound path --------------------- *)
PathInit == StartUp /\ FixedConf /\ logRequests = FALSE

PathNext ==
  \/ \E p \in AllPaths, raw \in SampleQueries : Arrive(1, p, raw)
  \/ CreateMonitor(1) \/ GetMonitor(1) \/ CheckLimit(1)
  \/ Forward(1, {PlainResponse})
  \/ Respond(1)

PathSpec == PathInit /\ [][PathNext]_vars

(* ----------------- the gate under fair scheduling ---------------------- *)
GatePaths == { <<"repos", "x">>, <<"graphql">> }

GateInit == StartUp /\ FixedConf /\ logRequests = FALSE

GateNext ==
  \E r \in AllReqs :
    \/ \E p \in GatePaths : Arrive(r, p, NoQuery)
    \/ Admission(r)
    \/ Forward(r, {PlainResponse, TransportError})
    \/ Fail(r)
    \/ Respond(r)

\* a goroutine that can take a step takes it; every upstream call returns;
\* a request waiting for requestMu gets it when it is free again and again
GateFairness ==
  \A r \in AllReqs :
    /\ WF_vars(Admission(r))
    /\ WF_vars(Authenticate(r))
    /\ SF_vars(Lock(r))
    /\ WF_vars(\E res \in {PlainResponse, TransportError} : DoReturns(r, res))
    /\ WF_vars(Unlock(r))
    /\ WF_vars(Fail(r))
    /\ WF_vars(Respond(r))

GateSpec == GateInit /\ [][GateNext]_vars /\ GateFairness

(* ----------------- one UserEmail component --------------------------- *)
\* the component is mounted with some email and some callbacks; the proxy
\* takes no step
UserEmailInit ==
  /\ ProxyStartUp /\ FixedConf /\ logRequests = FALSE
  /\ props \in Props
  /\ statusOrError = StatusUndefined
  /\ outstanding = [m \in Mutations |-> 0]
  /\ clicks = 0
  /\ invoked = <<>>
  /\ outcomes = <<>>

UserEmailNext ==
  \E m \in Mutations :
    \/ Click(m)
    \/ Resolve(m)
    \/ \E e \in Errors : Reject(m, e)

UserEmailSpec == UserEmailInit /\ [][UserEmailNext]_vars

(* ============================== claims ================================ *)
Called(r) == "call" \in did[r]
Rejected(r) == "reject" \in did[r]

C2_OneInFlight == Cardinality({r \in Reqs : pc[r] = "inflight"}) <= 1
C2_Witness ==
  \E r, o \in Reqs :
    pc[r] = "inflight" /\ pc[o] = "lock" /\ resource[r] # resource[o]

\* C3: no upstream call is started for a class while the monitor of that
\* class is known to be exhausted.
C3_NoDoomedCall ==
  [][\A r \in Reqs :
       pc[r] = "lock" /\ pc'[r] = "inflight" =>
         LET g == MonitorGet(heap[monitors[resource[r]]], now) IN
         ~(g.known /\ g.remaining < 1 /\ g.reset > 0)]_vars

\* C4: a request holds the gate exactly from its Lock until the step after
\* its upstream call has returned, with a response or with an error; it never
\* holds it while it updates a monitor or the gauge or answers the caller.
C4_GateScope ==
  \A r \in Reqs :
    /\ requestMu = r => pc[r] \in {"inflight", "unlock"}
    /\ pc[r] \in {"inflight", "unlock"} => requestMu = r
C4_Witness ==
  \E r, o \in Reqs :
    /\ pc[r] = "fail" /\ pc[o] \in {"update", "gauge", "relay"}
    /\ requestMu = 0

\* C5: every class has one monitor for the life of the process: a request
\* that has fetched its monitor holds the one the table has for its class.
C5_OneMonitorPerClass ==
  \A r \in Reqs : rateLimit[r] # 0 => rateLimit[r] = monitors[resource[r]]

PastAuth == {"lock", "inflight", "unlock", "fail", "update", "gauge", "relay", "done"}
Authenticated(r) == pc[r] \in PastAuth /\ ~Rejected(r)
CredentialsOf(a) == [GithubClientID |-> a.clientID, GithubClientSecret |-> a.clientSecret]

\* C6: a request reads the authenticator once, at its Authenticate step, and
\* takes what is published at that moment; from then on its outbound query
\* is not changed by any later publication, and the call it makes carries it.
C6_HotReload ==
  /\ [][\A r \in Reqs :
          /\ pc[r] = "auth" /\ pc'[r] # "auth" =>
               /\ authRequest'[r] = authenticateRequest
               /\ req2'[r] = Encode(ApplyAuth(authenticateRequest,
                                              ParseQuery(rawQuery[r])))
          /\ Authenticated(r) =>
               authRequest'[r] = authRequest[r] /\ req2'[r] = req2[r]]_vars
  /\ [](\A r \in Reqs : Called(r) => sent[r] = req2[r])
C6_Witness ==
  \E r, o \in Reqs :
    /\ pc[r] = "inflight" /\ authRequest[r].set
    /\ authenticateRequest # authRequest[r]
    /\ pc[o] = "lock" /\ authRequest[o] = authenticateRequest
    /\ sent[r] # req2[o]

\* C7: the client_id and client_secret of an outbound query are the two
\* fields of one configuration snapshot.
C7_NoMixedPair ==
  \A r \in Reqs :
    Authenticated(r) /\ authRequest[r].set =>
      LET q == ParseQuery(IF Called(r) THEN sent[r] ELSE req2[r]) IN
      \E c \in cfgSeen :
        /\ q["client_id"] = <<c.GithubClientID>>
        /\ q["client_secret"] = <<c.GithubClientSecret>>
C7_Witness ==
  \E r \in Reqs :
    /\ Called(r) /\ authRequest[r].set
    /\ CredentialsOf(authRequest[r]) = cfg
    /\ \E c \in cfgSeen :
         /\ c.GithubClientID \notin {"", cfg.GithubClientID}
         /\ c.GithubClientSecret \notin {"", cfg.GithubClientSecret}

\* C8: the callback leaves the authenticator as it is for a snapshot with an
\* empty identifier or secret, and replaces it by the two fields of a
\* snapshot that has both; a published authenticator is never taken away.
C8_InvalidSnapshotIgnored ==
  [][/\ dirty /\ ~dirty' =>
          IF cfg.GithubClientID # "" /\ cfg.GithubClientSecret # ""
          THEN wpc' = "publish" /\ wcfg' = cfg
          ELSE wpc' = "idle" /\ authenticateRequest' = authenticateRequest
     /\ wpc = "publish" /\ wpc' = "idle" =>
          authenticateRequest' = [set |-> TRUE, clientID |-> wcfg.GithubClientID,
                                  clientSecret |-> wcfg.GithubClientSecret]
     /\ authenticateRequest' # authenticateRequest =>
          wpc = "publish" /\ wcfg.GithubClientID # "" /\ wcfg.GithubClientSecret # ""
     /\ authenticateRequest.set => authenticateRequest'.set]_vars
C8_Witness ==
  /\ authenticateRequest.set
  /\ ~dirty /\ wpc = "idle" /\ wcfg = cfg
  /\ cfg.GithubClientID = "" \/ cfg.GithubClientSecret = ""

\* C9: with an authenticator published, the query sent upstream has the one
\* client_id and the one client_secret of the authenticator, whatever the
\* inbound query had under these names, and every other parameter of the
\* inbound query with its values.
C9_CredentialInjection ==
  \A r \in Reqs :
    Called(r) /\ authenticateRequest.set =>
      LET out == ParseQuery(sent[r])
          inb == ParseQuery(rawQuery[r])
      IN /\ out["client_id"] = <<authenticateRequest.clientID>>
         /\ out["client_secret"] = <<authenticateRequest.clientSecret>>
         /\ \A k \in Keys \ {"client_id", "client_secret"} : out[k] = inb[k]
C9_Witness ==
  \E r \in Reqs :
    /\ Called(r) /\ authenticateRequest.set
    /\ Len(ParseQuery(rawQuery[r])["client_id"]) = 1
    /\ Len(ParseQuery(rawQuery[r])["a"]) = 1

KeyIndex(k) == CHOOSE i \in 1..Len(KeyOrder) : KeyOrder[i] = k
\* a raw query as Encode writes it: keys in order, every token as escaped
IsCanonical(raw) ==
  /\ \A i \in 1..Len(raw) :
       ValidEscape(raw[i].v) /\ QueryEscape(QueryUnescape(raw[i].v)) = raw[i].v
  /\ \A i, j \in 1..Len(raw) : i < j => KeyIndex(raw[i].k) <= KeyIndex(raw[j].k)

\* C10 as stated: with no authenticator the outbound query is the inbound
\* query, byte for byte.
C10_ByteIdentical ==
  \A r \in Reqs : Called(r) /\ ~authRequest[r].set => sent[r] = rawQuery[r]

\* C10 amended: with no authenticator the outbound query is the inbound query
\* parsed and encoded again: the same parameters with the same values, keys
\* sorted and tokens escaped anew; it is the inbound query byte for byte when
\* that one is already written this way.
C10_SameParameters ==
  \A r \in Reqs :
    Called(r) /\ ~authRequest[r].set =>
      /\ ParseQuery(sent[r]) = ParseQuery(rawQuery[r])
      /\ IsCanonical(sent[r])
      /\ IsCanonical(rawQuery[r]) => sent[r] = rawQuery[r]
C10_Witness ==
  \E r \in Reqs :
    /\ Called(r) /\ ~authRequest[r].set
    /\ Len(sent[r]) = 2 /\ sent[r] # rawQuery[r]
    /\ sent[r][1].k = sent[r][2].k

\* the remaining-quota header of a response as the handler reads it
RemainingOf(res) == Atoi(res.header["X-Ratelimit-Remaining"])

\* C11: when a request of class c has finished its UpdateState step for a
\* response whose remaining-quota header has the value v, Get(c) reports
\* known and remaining = v and the gauge of c is v: the registry and the
\* gauge of the class agree after every UpdateState step.
C11_Bookkeeping ==
  [][\A r \in Reqs :
       pc[r] = "gauge" /\ pc'[r] = "relay" /\ RemainingOf(resp[r]).ok =>
         LET g == MonitorGet(heap'[monitors'[resource[r]]], now') IN
         /\ g.known /\ g.remaining = RemainingOf(resp[r]).n
         /\ gauge'[resource[r]] = RemainingOf(resp[r]).n]_vars

\* a request of class c has made its call and has not finished UpdateState
Updating(c) ==
  \E r \in Reqs :
    resource[r] = c /\ pc[r] \in {"inflight", "unlock", "update", "gauge"}

\* C12: whenever no request of class c is between its upstream call and the
\* end of its UpdateState step, the remaining value the registry and the
\* gauge hold for c is the one of the response of class c that returned
\* most recently.
C12_LastObserved ==
  \A c \in Classes :
    ~Updating(c) /\ lastResp[c] # NoResp /\ RemainingOf(lastResp[c]).ok =>
      /\ monitors[c] # 0
      /\ MonitorGet(heap[monitors[c]], now).known
      /\ MonitorGet(heap[monitors[c]], now).remaining = RemainingOf(lastResp[c]).n
      /\ gauge[c] = RemainingOf(lastResp[c]).n

\* the remaining-quota and reset-time headers of a response under either
\* spelling
QuotaOf(res) == Atoi(MonitorHeader(res.header, "Ratelimit-Remaining"))
ResetOf(res) == Atoi(MonitorHeader(res.header, "Ratelimit-Reset"))

\* C13: a response that carries the remaining-quota and reset-time headers,
\* under the canonical names or under the X- prefixed names, has its
\* remaining value written to the registry state of the class by the Update
\* step and to the gauge of the class by the gauge step.
C13_BothSpellings ==
  [][\A r \in Reqs :
       QuotaOf(resp[r]).ok /\ ResetOf(resp[r]).ok =>
         /\ pc[r] = "update" /\ pc'[r] = "gauge" =>
              /\ heap'[rateLimit[r]].known
              /\ heap'[rateLimit[r]].remaining = QuotaOf(resp[r]).n
         /\ pc[r] = "gauge" /\ pc'[r] = "relay" =>
              gauge'[resource[r]] = QuotaOf(resp[r]).n]_vars

\* C14: a request whose upstream call failed releases the gate, then is
\* answered 500 with the text of the error, and no step it takes from the
\* failure to its end changes the registry or the gauge of any class.
C14_TransportFailure ==
  /\ [](\A r \in Reqs :
          resp[r].err =>
            /\ pc[r] \in {"unlock", "fail", "done"}
            /\ did[r] = {"gate", "call"}
            /\ pc[r] = "fail" => requestMu # r /\ wrote[r] = <<>>
            /\ pc[r] = "done" =>
                 /\ requestMu # r
                 /\ status[r] = 500
                 /\ Len(wrote[r]) = 3
                 /\ wrote[r][2].op = "status" /\ wrote[r][2].status = 500
                 /\ wrote[r][3].op = "body"
                 /\ wrote[r][3].body = resp[r].body \o "\n")
  /\ [][\A r \in Reqs :
          resp[r].err /\ pc'[r] # pc[r] =>
            UNCHANGED <<monitors, heap, gauge>>]_vars
C14_Witness ==
  \E r, o \in Reqs :
    /\ resp[r].err /\ pc[r] = "done" /\ status[r] = 500
    /\ resource[o] = resource[r] /\ "update" \in did[o] /\ "gauge" \in did[o]
    /\ rateLimit[o] = rateLimit[r] /\ heap[rateLimit[r]].known

\* C15: a request makes at most one upstream call, whatever the call
\* returns; a finished request that was admitted has made exactly one and a
\* rejected request none.
C15_NoRetry ==
  \A r \in Reqs :
    /\ calls[r] <= 1
    /\ Rejected(r) => calls[r] = 0
    /\ pc[r] = "done" /\ ~Rejected(r) => calls[r] = 1
    /\ calls[r] = 1 <=>
         pc[r] \in {"inflight", "unlock", "fail", "update", "gauge", "relay"}
           \/ (pc[r] = "done" /\ ~Rejected(r))
C15_Witness ==
  \E r, o \in Reqs :
    /\ pc[r] = "done" /\ resp[r].status >= 400 /\ calls[r] = 1
    /\ pc[o] = "done" /\ Rejected(o) /\ calls[o] = 0

\* a finished request that relayed an upstream response
Relayed(r) == pc[r] = "done" /\ ~Rejected(r) /\ ~resp[r].err
\* the writes of one kind a request made to its caller
Writes(r, op) == SelectSeq(wrote[r], LAMBDA e : e.op = op)
Warned(r) == \E l \in logs : l.req = r /\ l.kind = "warn"

\* C16: the status, the headers and the body a caller receives are those of
\* the upstream response, whether logRequests is set or not; the body is
\* read whole and logged exactly when the status is 400 or more and
\* logRequests is set.
C16_LoggingTransparency ==
  \A r \in Reqs :
    Relayed(r) =>
      /\ Len(Writes(r, "status")) = 1
      /\ Writes(r, "status")[1].status = resp[r].status
      /\ Len(Writes(r, "header")) = 1
      /\ Writes(r, "header")[1].header = resp[r].header
      /\ Len(Writes(r, "body")) = 1
      /\ Writes(r, "body")[1].body = resp[r].body
      /\ Warned(r) <=> (resp[r].status >= 400 /\ logRequests)
      /\ \A l \in logs :
           l.req = r /\ l.kind = "warn" =>
             l.status = resp[r].status /\ l.text = resp[r].body
C16_Witness ==
  \E r, o \in Reqs :
    /\ logRequests
    /\ Relayed(r) /\ resp[r].status >= 400 /\ Warned(r)
    /\ Writes(r, "body")[1].body = "boom"
    /\ Relayed(o) /\ resp[o].status < 400 /\ ~Warned(o)

\* C17: the caller of a request that received an upstream response is
\* written every header of the response, then its status code, then its
\* body, each as the upstream sent it, and nothing else.
C17_RoundTrip ==
  \A r \in Reqs :
    /\ Relayed(r) =>
         /\ Len(wrote[r]) = 3
         /\ wrote[r][1].op = "header"
         /\ \A k \in HeaderNames : wrote[r][1].header[k] = resp[r].header[k]
         /\ wrote[r][2].op = "status" /\ wrote[r][2].status = resp[r].status
         /\ wrote[r][3].op = "body" /\ wrote[r][3].body = resp[r].body
    /\ pc[r] \in {"inflight", "unlock", "update", "gauge", "relay"} =>
         wrote[r] = <<>>
C17_Witness ==
  \E r \in Reqs :
    /\ Relayed(r) /\ resp[r].status = 200
    /\ wrote[r][1].header["Content-Type"] = "json"
    /\ wrote[r][1].header["X-Ratelimit-Remaining"] = "5"
    /\ wrote[r][3].body = "ok"

\* C18: every request is given one of the three classes, from its path
\* alone: search when the path starts with /search/, graphql when the path
\* is /graphql, core for every other path, /search, /graphql/ and
\* /graphql/x among them.
C18_Classification ==
  \A r \in Reqs :
    pc[r] # "idle" =>
      /\ resource[r] \in Classes
      /\ resource[r] = "search" <=> Len(path[r]) >= 2 /\ path[r][1] = "search"
      /\ resource[r] = "graphql" <=> path[r] = <<"graphql">>
      /\ path[r] \in {<<"search">>, <<"graphql", "">>, <<"graphql", "x">>}
           => resource[r] = "core"
C18_Witness ==
  \E r \in Reqs :
    /\ pc[r] = "done" /\ path[r] = <<"graphql", "x">> /\ resource[r] = "core"
    /\ rawQuery[r] # NoQuery /\ monitors["core"] # 0 /\ monitors["graphql"] = 0

\* a request that passed the admission test and has not been answered
Admitted(r) ==
  pc[r] \in {"auth", "lock", "inflight", "unlock", "fail", "update", "gauge", "relay"}

\* C19: the gate is held only by a request in its upstream call; when every
\* call returns and the gate is fair, the gate is free again after each
\* acquisition and every admitted request is answered; while a call has not
\* returned no other request starts its call.
C19_GateLiveness ==
  /\ [](\A r \in AllReqs : requestMu = r => pc[r] \in {"inflight", "unlock"})
  /\ \A r \in AllReqs : (requestMu = r) ~> (requestMu = 0)
  /\ \A r \in AllReqs : Admitted(r) ~> (pc[r] = "done")
  /\ [][\A r, o \in AllReqs :
          pc[r] = "inflight" /\ pc'[r] = "inflight" /\ o # r =>
            ~(pc[o] # "inflight" /\ pc'[o] = "inflight")]_vars

\* the mutations of the component that are not settled
Outstanding == outstanding["remove"] + outstanding["verify"] + outstanding["resend"]
\* the calls of one function in the history
Invocations(fn) == SelectSeq(invoked, LAMBDA i : i.fn = fn)
\* the settled mutations of one kind with one outcome
Settled(m, ok) == SelectSeq(outcomes, LAMBDA o : o.mutation = m /\ o.ok = ok)

====
